---- MODULE Spec2Model ----
(***************************************************************************)
(* A model of the hydrophone viewer's global state module (state.py), its  *)
(* tab system (ui_tab_system.py), the tabs (ui_tabs.py) and the layout and *)
(* start-up code (ui_layout.py, main.py).                                  *)
(*                                                                         *)
(* Every call of the program is one action.  A call that raises an         *)
(* exception is modelled by the state it leaves behind at the point of the *)
(* raise; last_call records the call, the exception and the return value.  *)
(***************************************************************************)
EXTENDS Integers, Sequences, FiniteSets, TLC

\* ---------------------------------------------------------------- bounds
MaxFrames == 2      \* longest data set parse_hydrophone_data delivers
MaxProfiles == 1    \* longest list of noise profiles explored
MaxAnnotations == 2 \* longest list of annotations explored
MaxThreads == 4     \* playback threads ever started in one run
MaxClock == 1       \* wall-clock seconds that pass in one run
MaxYmax == 140      \* largest FFT y-axis maximum explored

\* ------------------------------------------------------- python values
None == <<>>
Some(v) == <<v>>
Val(o) == o[1]
IsNone(o) == o = <<>>

\* int(x) of a float x, here in tenths: truncation toward zero.
py_int(x10) == IF x10 >= 0 THEN x10 \div 10 ELSE -((-x10) \div 10)

Last(s) == s[Len(s)]

\* ------------------------------------------------- sets inputs come from
Names == {"analysis", "filter", "annotations", "export"}
TabOrder == <<"analysis", "filter", "annotations", "export">>
\* The i-th FFT frame of a recording: two frequency bins, amplitudes in dB.
FrameAt(i) == <<60 * (i % 3), 120 - 60 * ((2 * i) % 3)>>
DataSets == {[i \in 1..n |-> FrameAt(i)] : n \in 1..MaxFrames}
FreqAxis == <<100, 250>>
Indices == 0..MaxFrames
Ranges == {<<s, e>> : s \in Indices, e \in Indices} \cap {r \in Indices \X Indices : r[1] <= r[2]}
Zones == {"UTC", "Australia/Perth"}
ClickXs == {-3}
GainVals == {<<2, 8>>}
MarkerFreqs == {100}
PathLists == {<<>>, <<"a.txt">>}
GoodPath == "project.pkl"
BadPath == "/missing_dir/project.pkl"
Paths == {GoodPath, BadPath}
TypedNames == {"", "Rain"}
Intensities == {2, 5}
Deltas == {-10, 10}
FftDeltas == {-200, -25, -10, 10, 25, 200}
AutoRanges == {<<-5, 65>>, <<30, 90>>}
ThreadIds == 1..MaxThreads

VARIABLES
    \* state.py, data storage
    data_global, freqs_global, file_paths, time_labels_all, timestamp_all,
    current_timezone,
    \* state.py, audio
    audio_playing, audio_stop_flag, audio_finished, audio_thread,
    \* state.py, visualization
    time_zoom_start, time_zoom_end, spec_click_line, selected_range,
    fft_patch, fft_ymin, fft_ymax, freq_markers,
    \* state.py, UI
    file_scroll_position, visible_files, scroll_position, log_entries,
    ax_fft, gain_slider, tab_manager,
    \* TabManager
    tabs, active_tab, tab_buttons,
    \* AnalysisTab
    fft_min_val, fft_max_val,
    \* FilterTab
    noise_profiles, active_profile, filter_intensity, status_text,
    status_light, name_input,
    \* AnnotationsTab
    annotations, current_annotation,
    \* the world outside the process
    files, threads, clock,
    \* the most recent call and its outcome
    last_call

dataVars == <<data_global, freqs_global, time_labels_all, timestamp_all>>
projVars == <<file_paths, current_timezone, time_zoom_start, time_zoom_end,
              spec_click_line, freq_markers, gain_slider>>
audioVars == <<audio_playing, audio_stop_flag, audio_finished, audio_thread>>
selVars == <<selected_range, fft_patch>>
fftVars == <<fft_ymin, fft_ymax, ax_fft>>
scrollVars == <<file_scroll_position, visible_files, scroll_position>>
mgrVars == <<tab_manager, tabs, active_tab, tab_buttons>>
analysisVars == <<fft_min_val, fft_max_val>>
filterVars == <<noise_profiles, active_profile, filter_intensity, status_text,
                status_light, name_input>>
annotVars == <<annotations, current_annotation>>
worldVars == <<files, threads, clock>>

stateVars == <<dataVars, projVars, audioVars, selVars, fftVars, scrollVars,
               log_entries>>
vars == <<stateVars, mgrVars, analysisVars, filterVars, annotVars, worldVars,
          last_call>>

\* ------------------------------------------------------------ observers
Call(op, arg, raised, ret) ==
    [op |-> op, arg |-> arg, raised |-> raised, ret |-> ret]

\* utils.add_log_entry: append to state.log_entries.  The model keeps the
\* most recent entry only, and of a formatted message the format.
add_log_entry(log, msg) == <<msg>>

\* ------------------------------------------- state.py, initial values
InitMarkers == <<[index |-> 0, freq |-> None], [index |-> 1, freq |-> None]>>
UTC == [zone |-> "UTC"]
InitFftYmin == 0
InitFftYmax == 120
InitVisibleFiles == 12

InitState ==
    /\ data_global = None /\ freqs_global = None
    /\ file_paths = <<>> /\ time_labels_all = <<>> /\ timestamp_all = <<>>
    /\ current_timezone = UTC
    /\ audio_playing = FALSE /\ audio_stop_flag = FALSE
    /\ audio_finished = FALSE /\ audio_thread = None
    /\ time_zoom_start = 0 /\ time_zoom_end = 0
    /\ spec_click_line = None /\ selected_range = None /\ fft_patch = None
    /\ fft_ymin = InitFftYmin /\ fft_ymax = InitFftYmax
    /\ freq_markers = InitMarkers
    /\ file_scroll_position = 0 /\ visible_files = InitVisibleFiles
    /\ scroll_position = 0 /\ log_entries = <<>>
    /\ ax_fft = FALSE /\ gain_slider = None /\ tab_manager = FALSE

Init ==
    /\ InitState
    /\ tabs = <<>> /\ active_tab = None /\ tab_buttons = <<>>
    /\ fft_min_val = 0 /\ fft_max_val = 120
    /\ noise_profiles = <<>> /\ active_profile = None
    /\ filter_intensity = 5 /\ status_text = "OFF" /\ status_light = "gray"
    /\ name_input = "Background Profile"
    /\ annotations = <<>> /\ current_annotation = None
    /\ files = [p \in Paths |-> [kind |-> "missing"]]
    /\ threads = [t \in ThreadIds |-> "new"]
    /\ clock = 0
    /\ last_call = Call("import", None, "", None)

\* --------------------------------------------- code outside this source
\* data_parser.parse_hydrophone_data, called by main.setup_viewer: it
\* fills the arrays of FFT frames, frequencies, labels and timestamps.
parse_hydrophone_data(ds) ==
    /\ IsNone(data_global)
    /\ data_global' = Some(ds)
    /\ freqs_global' = Some(FreqAxis)
    /\ time_labels_all' = [i \in 1..Len(ds) |-> "t" \o ToString(i - 1)]
    /\ timestamp_all' = [i \in 1..Len(ds) |-> i]
    /\ last_call' = Call("parse_hydrophone_data", None, "", None)
    /\ UNCHANGED <<projVars, audioVars, selVars, fftVars, scrollVars,
                   log_entries, mgrVars, analysisVars, filterVars, annotVars,
                   worldVars>>

\* The span selector of the event handlers: the user selects a time range.
on_select(r) ==
    /\ selected_range' = r
    /\ fft_patch' = Some("patch")
    /\ last_call' = Call("on_select", r, "", None)
    /\ UNCHANGED <<dataVars, projVars, audioVars, fftVars, scrollVars,
                   log_entries, mgrVars, analysisVars, filterVars, annotVars,
                   worldVars>>

\* The click handler: a vertical line at the clicked x (in tenths).
on_click(x) ==
    /\ spec_click_line' = Some(x)
    /\ last_call' = Call("on_click", x, "", None)
    /\ UNCHANGED <<dataVars, file_paths, current_timezone, time_zoom_start,
                   time_zoom_end, freq_markers, gain_slider, audioVars,
                   selVars, fftVars, scrollVars, log_entries, mgrVars,
                   analysisVars, filterVars, annotVars, worldVars>>

\* The timezone dropdown, the gain slider and the frequency markers.
set_timezone(z) ==
    /\ current_timezone' = [zone |-> z]
    /\ last_call' = Call("set_timezone", z, "", None)
    /\ UNCHANGED <<dataVars, file_paths, time_zoom_start, time_zoom_end,
                   spec_click_line, freq_markers, gain_slider, audioVars,
                   selVars, fftVars, scrollVars, log_entries, mgrVars,
                   analysisVars, filterVars, annotVars, worldVars>>

set_gain(v) ==
    /\ gain_slider' = Some([val |-> v])
    /\ last_call' = Call("set_gain", v, "", None)
    /\ UNCHANGED <<dataVars, file_paths, current_timezone, time_zoom_start,
                   time_zoom_end, spec_click_line, freq_markers, audioVars,
                   selVars, fftVars, scrollVars, log_entries, mgrVars,
                   analysisVars, filterVars, annotVars, worldVars>>

set_marker(i, f) ==
    /\ freq_markers' = [freq_markers EXCEPT ![i].freq = Some(f)]
    /\ last_call' = Call("set_marker", i, "", None)
    /\ UNCHANGED <<dataVars, file_paths, current_timezone, time_zoom_start,
                   time_zoom_end, spec_click_line, gain_slider, audioVars,
                   selVars, fftVars, scrollVars, log_entries, mgrVars,
                   analysisVars, filterVars, annotVars, worldVars>>

\* The user types into the profile-name TextBox of the Filter tab.
type_name(s) ==
    /\ "filter" \in DOMAIN tabs
    /\ tabs["filter"].built
    /\ name_input' = s
    /\ last_call' = Call("type_name", s, "", None)
    /\ UNCHANGED <<stateVars, mgrVars, analysisVars, noise_profiles,
                   active_profile, filter_intensity, status_text,
                   status_light, annotVars, worldVars>>

\* A second passes on the wall clock.
tick ==
    /\ clock < MaxClock
    /\ clock' = clock + 1
    /\ last_call' = Call("tick", None, "", None)
    /\ UNCHANGED <<stateVars, mgrVars, analysisVars, filterVars, annotVars,
                   files, threads>>

\* ------------------------------------------------ state.py, functions
\* The dictionary with the zoom start stored as both ends of time_zoom.
state_dict_zoom_start_twice ==
    LET base == [file_paths |-> file_paths,
                 time_zoom |-> <<time_zoom_start, time_zoom_start>>,
                 gain |-> IF IsNone(gain_slider) THEN <<0, 1>>
                          ELSE Val(gain_slider).val,
                 current_timezone |-> current_timezone.zone,
                 freq_markers |-> [i \in 1..Len(freq_markers) |->
                                      freq_markers[i].freq]]
    IN  IF IsNone(spec_click_line) THEN base
        ELSE ("click_index" :> py_int(Val(spec_click_line))) @@ base

\* save_project, lines 100-115: the dictionary that is pickled.
state_dict ==
    LET base == [file_paths |-> file_paths,
                 time_zoom |-> <<time_zoom_start, time_zoom_end>>,
                 gain |-> IF IsNone(gain_slider) THEN <<0, 1>>
                          ELSE Val(gain_slider).val,
                 current_timezone |-> current_timezone.zone,
                 freq_markers |-> [i \in 1..Len(freq_markers) |->
                                      freq_markers[i].freq]]
    IN  IF IsNone(spec_click_line) THEN base
        ELSE ("click_index" :> py_int(Val(spec_click_line))) @@ base

\* A save that reports success although pickle.dump failed.
SaveResultTrueOnWriteFailure(filepath, io) ==
    IF filepath = BadPath
    THEN [ret |-> FALSE, file |-> files[filepath]]
    ELSE IF io = "write_fails"
    THEN [ret |-> TRUE, file |-> [kind |-> "corrupt"]]
    ELSE [ret |-> TRUE, file |-> [kind |-> "pickle", obj |-> state_dict]]

\* What open(filepath, 'wb') and pickle.dump leave in the file, and the
\* value returned.  io is what the file system does to the write.
SaveResult(filepath, io) ==
    IF filepath = BadPath
    THEN [ret |-> FALSE, file |-> files[filepath]]
    ELSE IF io = "write_fails"
    THEN [ret |-> FALSE, file |-> [kind |-> "corrupt"]]
    ELSE [ret |-> TRUE, file |-> [kind |-> "pickle", obj |-> state_dict]]

save_project(filepath, io) ==
    LET r == SaveResult(filepath, io)
    IN  /\ files' = [files EXCEPT ![filepath] = r.file]
        /\ last_call' = Call("save_project", filepath, "", Some(r.ret))
        /\ UNCHANGED <<stateVars, mgrVars, analysisVars, filterVars,
                       annotVars, threads, clock>>

\* A load that answers an empty dictionary when the file cannot be read.
LoadResultEmptyOnError(filepath) ==
    IF files[filepath].kind = "pickle" THEN Some(files[filepath].obj)
    ELSE Some(<<>>)

\* load_project: the unpickled object, or None when open or pickle.load
\* raises.
LoadResult(filepath) ==
    IF files[filepath].kind = "pickle" THEN Some(files[filepath].obj) ELSE None

load_project(filepath) ==
    /\ last_call' = Call("load_project", filepath, "", LoadResult(filepath))
    /\ UNCHANGED <<stateVars, mgrVars, analysisVars, filterVars, annotVars,
                   worldVars>>

\* A reset that clears the frames and the labels and keeps the timestamps.
reset_state_effect_keeps_timestamps ==
    /\ data_global' = None /\ freqs_global' = None
    /\ file_paths' = <<>> /\ time_labels_all' = <<>>
    /\ audio_playing' = FALSE /\ audio_stop_flag' = FALSE
    /\ audio_finished' = FALSE /\ audio_thread' = None
    /\ time_zoom_start' = 0 /\ time_zoom_end' = 0
    /\ spec_click_line' = None /\ selected_range' = None /\ fft_patch' = None
    /\ UNCHANGED <<timestamp_all, current_timezone, fft_ymin, fft_ymax,
                   freq_markers, file_scroll_position, visible_files,
                   scroll_position>>

\* reset_state.  The global statement (lines 143-155) does not name
\* current_timezone, fft_ymin, fft_ymax, freq_markers,
\* file_scroll_position, visible_files and scroll_position: the
\* assignments to them bind local names and the module keeps its values.
reset_state_effect ==
    /\ data_global' = None /\ freqs_global' = None
    /\ file_paths' = <<>> /\ time_labels_all' = <<>> /\ timestamp_all' = <<>>
    /\ audio_playing' = FALSE /\ audio_stop_flag' = FALSE
    /\ audio_finished' = FALSE /\ audio_thread' = None
    /\ time_zoom_start' = 0 /\ time_zoom_end' = 0
    /\ spec_click_line' = None /\ selected_range' = None /\ fft_patch' = None
    /\ UNCHANGED <<current_timezone, fft_ymin, fft_ymax, freq_markers,
                   file_scroll_position, visible_files, scroll_position>>

reset_state ==
    /\ reset_state_effect
    /\ log_entries' = <<>>
    /\ last_call' = Call("reset_state", None, "", None)
    /\ UNCHANGED <<ax_fft, gain_slider, mgrVars, analysisVars, filterVars,
                   annotVars, worldVars>>

\* ------------------------------------------------------ ui_tab_system.py
\* The tab manager, its tabs and the fields of the tab instances, as one
\* value: the calls below are functions on it, so that a caller
\* (create_modern_layout) is the composition of its calls.  u.raised is the
\* exception in flight, "" when there is none.
CurUI ==
    [tabs |-> tabs, active_tab |-> active_tab, tab_buttons |-> tab_buttons,
     fft_min_val |-> fft_min_val, fft_max_val |-> fft_max_val,
     fft_ymin |-> fft_ymin, fft_ymax |-> fft_ymax,
     noise_profiles |-> noise_profiles, active_profile |-> active_profile,
     filter_intensity |-> filter_intensity, status_text |-> status_text,
     status_light |-> status_light, name_input |-> name_input,
     annotations |-> annotations, current_annotation |-> current_annotation,
     log_entries |-> log_entries, raised |-> ""]

SetUI(u) ==
    /\ tabs' = u.tabs /\ active_tab' = u.active_tab
    /\ tab_buttons' = u.tab_buttons
    /\ fft_min_val' = u.fft_min_val /\ fft_max_val' = u.fft_max_val
    /\ fft_ymin' = u.fft_ymin /\ fft_ymax' = u.fft_ymax
    /\ noise_profiles' = u.noise_profiles
    /\ active_profile' = u.active_profile
    /\ filter_intensity' = u.filter_intensity
    /\ status_text' = u.status_text /\ status_light' = u.status_light
    /\ name_input' = u.name_input
    /\ annotations' = u.annotations
    /\ current_annotation' = u.current_annotation
    /\ log_entries' = u.log_entries

\* TabBase.__init__ and the __init__ of the four tab classes: the fields of
\* a new instance registered under name.
NewInstance(u, name) ==
    IF name = "analysis"
    THEN [u EXCEPT !.fft_min_val = 0, !.fft_max_val = 120]
    ELSE IF name = "filter"
    THEN [u EXCEPT !.noise_profiles = <<>>, !.active_profile = None,
                   !.filter_intensity = 5, !.status_text = "OFF",
                   !.status_light = "gray",
                   !.name_input = "Background Profile"]
    ELSE IF name = "annotations"
    THEN [u EXCEPT !.annotations = <<>>, !.current_annotation = None]
    ELSE u

\* build() of the class registered under name: "" when it completes, the
\* exception otherwise.  AnnotationsTab.build binds self.create_section to
\* the Axes its first call returns (line 859) and calls it again on the
\* next line: 'Axes' object is not callable.
BuildRaises(name) == IF name = "annotations" THEN "TypeError" ELSE ""

\* dict == dict for two noise profiles, as FilterTab.update_profiles_display
\* and on_delete_profile evaluate it: the same object is equal; otherwise
\* the keys are compared in order name, range, data, and comparing two
\* distinct numpy arrays of more than one bin has no truth value.
ProfileEq(p, a) ==
    IF IsNone(a) THEN "false"
    ELSE IF p.oid = Val(a).oid THEN "true"
    ELSE IF p.name # Val(a).name \/ p.range # Val(a).range THEN "false"
    ELSE "ValueError"

\* FilterTab.update_profiles_display: the exception it raises, if any.
ProfilesDisplayRaises(profiles, a) ==
    IF \E i \in 1..Len(profiles) : ProfileEq(profiles[i], a) = "ValueError"
    THEN "ValueError" ELSE ""

\* on_show() of the tab registered under name, run on u.
OnShow(u, name) ==
    IF name = "analysis"
    THEN [u EXCEPT !.fft_min_val = u.fft_ymin, !.fft_max_val = u.fft_ymax]
    ELSE IF name = "filter"
    THEN [u EXCEPT !.raised =
             ProfilesDisplayRaises(u.noise_profiles, u.active_profile)]
    ELSE IF name = "annotations"
    THEN \* update_annotations_display reads self.annotations_text, which
         \* build() never got to create.
         [u EXCEPT !.raised = IF u.tabs[name].built THEN ""
                              ELSE "AttributeError"]
    ELSE u

DefaultColours == [color |-> "#1E1E1E", hovercolor |-> "#2A2A2A"]
ActiveColours == [color |-> "#3A3A3A", hovercolor |-> "#444444"]

\* TabManager.__init__
NewManager(u) ==
    [u EXCEPT !.tabs = <<>>, !.active_tab = None, !.tab_buttons = <<>>,
              !.raised = ""]

\* TabManager.add_tab
AddTab(u, name) ==
    LET u1 == NewInstance(u, name)
        reg == (name :> [visible |-> FALSE, built |-> FALSE]) @@ u1.tabs
    IN  IF BuildRaises(name) # ""
        THEN [u1 EXCEPT !.tabs = reg, !.raised = BuildRaises(name)]
        ELSE [u1 EXCEPT !.tabs = (name :> [visible |-> FALSE,
                                           built |-> TRUE]) @@ u1.tabs]

\* TabManager.create_tab_buttons
CreateTabButtons(u) ==
    [u EXCEPT !.tab_buttons =
        [n \in DOMAIN u.tabs |-> DefaultColours] @@ u.tab_buttons]

\* TabBase.hide of the active tab and the reset of its button, lines 266-273
HideActive(u) ==
    IF ~IsNone(u.active_tab) /\ Val(u.active_tab) \in DOMAIN u.tabs
    THEN LET a == Val(u.active_tab)
         IN  [u EXCEPT !.tabs[a].visible = FALSE,
                       !.tab_buttons =
                           IF a \in DOMAIN u.tab_buttons
                           THEN [u.tab_buttons EXCEPT ![a] = DefaultColours]
                           ELSE u.tab_buttons]
    ELSE u

\* TabBase.show: visible is set before on_show runs.
Show(u, name) == OnShow([u EXCEPT !.tabs[name].visible = TRUE], name)

\* A switch that hides the active tab before it looks the name up.
SwitchToTabHidesFirst(u, name) ==
    IF name \notin DOMAIN u.tabs
    THEN [HideActive(u) EXCEPT !.log_entries =
             add_log_entry(u.log_entries, "Tab '" \o name \o "' not found")]
    ELSE LET shown == Show(HideActive(u), name)
         IN  IF shown.raised # "" THEN shown
             ELSE [shown EXCEPT
                     !.active_tab = Some(name),
                     !.tab_buttons =
                         IF name \in DOMAIN shown.tab_buttons
                         THEN [shown.tab_buttons EXCEPT ![name] = ActiveColours]
                         ELSE shown.tab_buttons,
                     !.log_entries =
                         add_log_entry(shown.log_entries,
                                       "Switched to " \o name \o " tab")]

\* TabManager.switch_to_tab
SwitchToTab(u, name) ==
    IF name \notin DOMAIN u.tabs
    THEN [u EXCEPT !.log_entries =
             add_log_entry(u.log_entries, "Tab '" \o name \o "' not found")]
    ELSE LET shown == Show(HideActive(u), name)
         IN  IF shown.raised # "" THEN shown
             ELSE [shown EXCEPT
                     !.active_tab = Some(name),
                     !.tab_buttons =
                         IF name \in DOMAIN shown.tab_buttons
                         THEN [shown.tab_buttons EXCEPT ![name] = ActiveColours]
                         ELSE shown.tab_buttons,
                     !.log_entries =
                         add_log_entry(shown.log_entries,
                                       "Switched to " \o name \o " tab")]

uiFrame == <<dataVars, projVars, audioVars, selVars, scrollVars, worldVars>>

TabManager_init ==
    /\ tab_manager' = TRUE
    /\ SetUI(NewManager(CurUI))
    /\ last_call' = Call("TabManager", None, "", None)
    /\ UNCHANGED <<uiFrame, ax_fft>>

add_tab(name) ==
    /\ tab_manager
    /\ LET u == AddTab(CurUI, name)
       IN  /\ SetUI(u)
           /\ last_call' = Call("add_tab", name, u.raised, None)
    /\ UNCHANGED <<uiFrame, ax_fft, tab_manager>>

create_tab_buttons ==
    /\ tab_manager
    /\ SetUI(CreateTabButtons(CurUI))
    /\ last_call' = Call("create_tab_buttons", None, "", None)
    /\ UNCHANGED <<uiFrame, ax_fft, tab_manager>>

switch_to_tab(name) ==
    /\ tab_manager
    /\ LET u == SwitchToTab(CurUI, name)
       IN  /\ SetUI(u)
           /\ last_call' = Call("switch_to_tab", name, u.raised, None)
    /\ UNCHANGED <<uiFrame, ax_fft, tab_manager>>

\* TabBase.update of every registered tab (update_all_tabs): the tabs whose
\* on_update is called, those with visible set.
UpdateAllTabs(u) == {n \in DOMAIN u.tabs : u.tabs[n].visible}

\* TabBase.update of the active tab (update_active_tab): the tabs whose
\* on_update is called.
UpdateActiveTab(u) ==
    IF ~IsNone(u.active_tab) /\ Val(u.active_tab) \in DOMAIN u.tabs
    THEN {n \in {Val(u.active_tab)} : u.tabs[n].visible}
    ELSE {}

\* on_update writes the statistics text of the Analysis tab and nothing the
\* model keeps; ret is the set of tabs whose on_update ran.
update_all_tabs ==
    /\ tab_manager
    /\ last_call' = Call("update_all_tabs", None, "", UpdateAllTabs(CurUI))
    /\ UNCHANGED <<stateVars, mgrVars, analysisVars, filterVars, annotVars,
                   worldVars>>

update_active_tab ==
    /\ tab_manager
    /\ last_call' = Call("update_active_tab", None, "",
                         UpdateActiveTab(CurUI))
    /\ UNCHANGED <<stateVars, mgrVars, analysisVars, filterVars, annotVars,
                   worldVars>>

\* ------------------------------------------------------------ ui_layout.py
\* add_tab for the names of s from index i on, stopping at the first raise.
RECURSIVE AddTabs(_, _, _)
AddTabs(u, s, i) ==
    IF i > Len(s) \/ u.raised # "" THEN u
    ELSE AddTabs(AddTab(u, s[i]), s, i + 1)

\* create_modern_layout, lines 86-87 and 114-127
ModernLayout(u) ==
    LET u0 == NewManager([u EXCEPT !.fft_ymin = 0, !.fft_ymax = 120])
        u1 == AddTabs(u0, TabOrder, 1)
        u2 == IF u1.raised # "" THEN u1 ELSE CreateTabButtons(u1)
    IN  IF u2.raised # "" THEN u2 ELSE SwitchToTab(u2, "analysis")

create_modern_layout ==
    /\ LET u == ModernLayout(CurUI)
       IN  /\ SetUI(u)
           /\ last_call' = Call("create_modern_layout", None, u.raised, None)
    /\ ax_fft' = TRUE
    /\ tab_manager' = TRUE
    /\ UNCHANGED uiFrame

\* ------------------------------------------------- ui_tabs.py, FilterTab
filterFrame == <<dataVars, projVars, audioVars, selVars, fftVars, scrollVars,
                 mgrVars, analysisVars, annotVars, worldVars>>

HasFilterTab == "filter" \in DOMAIN tabs /\ tabs["filter"].built

\* state.time_labels_all[i] if i < len(state.time_labels_all) else "N/A"
LabelAt(i) ==
    IF i < Len(time_labels_all) THEN time_labels_all[i + 1] ELSE "N/A"

\* An object identity no live noise profile has.
NewOid ==
    LET used == {noise_profiles[i].oid : i \in 1..Len(noise_profiles)}
                \cup (IF IsNone(active_profile) THEN {}
                      ELSE {Val(active_profile).oid})
    IN  CHOOSE k \in 1..(MaxProfiles + 2) : k \notin used /\
            \A j \in 1..(k - 1) : j \in used

\* The frames collected with range(start, end): the last one is left out.
RECURSIVE ProfileDataExclusive(_, _)
ProfileDataExclusive(i, end) ==
    IF i >= end THEN <<>>
    ELSE <<Val(data_global)[i + 1]>> \o ProfileDataExclusive(i + 1, end)

\* on_save_profile, lines 680-682: the frames data_global[start..end]
RECURSIVE ProfileData(_, _)
ProfileData(i, end) ==
    IF i > end THEN <<>>
    ELSE <<Val(data_global)[i + 1]>> \o ProfileData(i + 1, end)

RECURSIVE ColumnSum(_, _, _)
ColumnSum(rows, b, i) ==
    IF i > Len(rows) THEN 0 ELSE rows[i][b] + ColumnSum(rows, b, i + 1)

\* np.mean(np.vstack(rows), axis=0); the amplitudes of Frames are multiples
\* of 60, so the division is exact for up to six rows.
np_mean_axis0(rows) ==
    [b \in 1..Len(rows[1]) |-> ColumnSum(rows, b, 1) \div Len(rows)]

\* on_save_profile, lines 669-671
ProfileName ==
    IF name_input # "" THEN name_input
    ELSE "Background Profile " \o ToString(Len(noise_profiles) + 1)

on_capture_profile ==
    /\ HasFilterTab
    /\ log_entries' = add_log_entry(log_entries,
           IF ~IsNone(selected_range)
           THEN "Captured background profile for range {start}-{end}"
           ELSE "Cannot capture profile - no selection")
    /\ last_call' = Call("on_capture_profile", None, "", None)
    /\ UNCHANGED <<filterFrame, filterVars>>

on_save_profile ==
    /\ HasFilterTab
    /\ Len(noise_profiles) < MaxProfiles
    /\ IF IsNone(selected_range)
       THEN /\ log_entries' = add_log_entry(log_entries,
                                  "Cannot save profile - no selection")
            /\ last_call' = Call("on_save_profile", None, "", None)
            /\ UNCHANGED filterVars
       ELSE LET start == selected_range[1]
                end == selected_range[2]
            IN  IF ~IsNone(data_global) /\ start < Len(Val(data_global))
                   /\ end < Len(Val(data_global))
                THEN LET rows == ProfileData(start, end)
                     IN  IF rows = <<>>
                         THEN \* np.vstack([]) raises
                              /\ last_call' = Call("on_save_profile", None,
                                                   "ValueError", None)
                              /\ UNCHANGED <<filterVars, log_entries>>
                         ELSE LET profile ==
                                    [name |-> ProfileName,
                                     range |-> <<start, end>>,
                                     data |-> np_mean_axis0(rows),
                                     time |-> LabelAt(start) \o " - "
                                              \o LabelAt(end),
                                     oid |-> NewOid]
                                  all == Append(noise_profiles, profile)
                                  err == ProfilesDisplayRaises(all,
                                                               active_profile)
                              IN  /\ noise_profiles' = all
                                  /\ last_call' = Call("on_save_profile",
                                                       None, err, None)
                                  /\ IF err # ""
                                     THEN UNCHANGED <<name_input, log_entries>>
                                     ELSE /\ name_input' = ""
                                          /\ log_entries' = add_log_entry(
                                               log_entries,
                                               "Saved background profile '{profile_name}'")
                                  /\ UNCHANGED <<active_profile,
                                                 filter_intensity,
                                                 status_text, status_light>>
                ELSE /\ log_entries' = add_log_entry(log_entries,
                            "Cannot save profile - invalid data range")
                     /\ last_call' = Call("on_save_profile", None, "", None)
                     /\ UNCHANGED filterVars
    /\ UNCHANGED filterFrame

on_load_profile ==
    /\ HasFilterTab
    /\ IF noise_profiles # <<>>
       THEN LET a == Some(noise_profiles[1])
                err == ProfilesDisplayRaises(noise_profiles, a)
            IN  /\ active_profile' = a
                /\ last_call' = Call("on_load_profile", None, err, None)
                /\ IF err # ""
                   THEN UNCHANGED <<status_light, status_text, log_entries>>
                   ELSE /\ status_light' = "orange"
                        /\ status_text' = "READY"
                        /\ log_entries' = add_log_entry(log_entries,
                               "Loaded profile '{name}'")
       ELSE /\ log_entries' = add_log_entry(log_entries,
                                  "No profiles available to load")
            /\ last_call' = Call("on_load_profile", None, "", None)
            /\ UNCHANGED <<active_profile, status_light, status_text>>
    /\ UNCHANGED <<filterFrame, noise_profiles, filter_intensity, name_input>>

on_delete_profile ==
    /\ HasFilterTab
    /\ IF noise_profiles # <<>>
       THEN LET deleted == Head(noise_profiles)
                rest == Tail(noise_profiles)
                eq == ProfileEq(deleted, active_profile)
                a == IF eq = "true" THEN None ELSE active_profile
                err == IF eq = "ValueError" THEN eq
                       ELSE ProfilesDisplayRaises(rest, a)
            IN  /\ noise_profiles' = rest
                /\ active_profile' = a
                /\ IF eq = "true"
                   THEN status_light' = "gray" /\ status_text' = "OFF"
                   ELSE UNCHANGED <<status_light, status_text>>
                /\ last_call' = Call("on_delete_profile", None, err, None)
                /\ log_entries' =
                       IF err # "" THEN log_entries
                       ELSE add_log_entry(log_entries,
                                "Deleted profile '{name}'")
       ELSE /\ log_entries' = add_log_entry(log_entries,
                                  "No profiles available to delete")
            /\ last_call' = Call("on_delete_profile", None, "", None)
            /\ UNCHANGED <<noise_profiles, active_profile, status_light,
                           status_text>>
    /\ UNCHANGED <<filterFrame, filter_intensity, name_input>>

on_export_profile ==
    /\ HasFilterTab
    /\ log_entries' = add_log_entry(log_entries,
           IF ~IsNone(active_profile)
           THEN "Export profile '{name}' (not implemented)"
           ELSE "No active profile to export")
    /\ last_call' = Call("on_export_profile", None, "", None)
    /\ UNCHANGED <<filterFrame, filterVars>>

\* val is the slider value in tenths.
on_intensity_change(val) ==
    /\ HasFilterTab
    /\ filter_intensity' = val
    /\ log_entries' = add_log_entry(log_entries,
           "Filter intensity set to {val:.2f}")
    /\ last_call' = Call("on_intensity_change", val, "", None)
    /\ UNCHANGED <<filterFrame, noise_profiles, active_profile, status_text,
                   status_light, name_input>>

\* A filter that is applied: the loaded profile subtracted from every frame.
on_toggle_filter_applied ==
    /\ HasFilterTab
    /\ ~IsNone(active_profile)
    /\ status_text # "ON"
    /\ ~IsNone(data_global)
    /\ data_global' = Some([i \in 1..Len(Val(data_global)) |->
           [b \in 1..Len(Val(data_global)[i]) |->
               IF Val(data_global)[i][b] > Val(active_profile).data[b]
               THEN Val(data_global)[i][b] - Val(active_profile).data[b]
               ELSE 0]])
    /\ status_light' = "green"
    /\ status_text' = "ON"
    /\ log_entries' = add_log_entry(log_entries, "Filtering turned on")
    /\ last_call' = Call("on_toggle_filter", None, "", None)
    /\ UNCHANGED <<freqs_global, time_labels_all, timestamp_all, projVars,
                   audioVars, selVars, fftVars, scrollVars, mgrVars,
                   analysisVars, annotVars, worldVars, noise_profiles,
                   active_profile, filter_intensity, name_input>>

on_toggle_filter ==
    /\ HasFilterTab
    /\ IF ~IsNone(active_profile)
       THEN IF status_text = "ON"
            THEN /\ status_light' = "orange"
                 /\ status_text' = "READY"
                 /\ log_entries' = add_log_entry(log_entries,
                                       "Filtering turned off")
            ELSE /\ status_light' = "green"
                 /\ status_text' = "ON"
                 /\ log_entries' = add_log_entry(log_entries,
                        "Filtering turned on (intensity: {intensity:.2f})")
       ELSE /\ log_entries' = add_log_entry(log_entries,
                                  "Cannot apply filter - no profile loaded")
            /\ UNCHANGED <<status_light, status_text>>
    /\ last_call' = Call("on_toggle_filter", None, "", None)
    /\ UNCHANGED <<filterFrame, noise_profiles, active_profile,
                   filter_intensity, name_input>>

on_reset_filter ==
    /\ HasFilterTab
    /\ status_light' = "gray"
    /\ status_text' = "OFF"
    /\ active_profile' = None
    /\ log_entries' = add_log_entry(log_entries, "Reset filtering")
    /\ last_call' = Call("on_reset_filter", None, "", None)
    /\ UNCHANGED <<filterFrame, noise_profiles, filter_intensity, name_input>>

\* ----------------------------------------------- ui_tabs.py, AnalysisTab
analysisFrame == <<dataVars, projVars, audioVars, selVars, scrollVars,
                   mgrVars, filterVars, annotVars, worldVars, ax_fft>>

HasAnalysisTab == "analysis" \in DOMAIN tabs /\ tabs["analysis"].built

Max(a, b) == IF a >= b THEN a ELSE b
Min(a, b) == IF a <= b THEN a ELSE b

\* The new minimum with the floor only, without the gap to the maximum.
NewMinFloorOnly(old_min, delta, max_val) == Max(old_min + delta, -20)

\* The new maximum without the gap to the minimum.
NewMaxUnclamped(old_max, delta, min_val) == old_max + delta

\* adjust_fft_min, lines 179-180
NewMin(old_min, delta, max_val) == Min(Max(old_min + delta, -20), max_val - 10)

\* adjust_fft_max, line 201
NewMax(old_max, delta, min_val) == Max(old_max + delta, min_val + 10)

\* An adjust_fft_min that stores the new minimum in the tab only.
adjust_fft_min_tab_only(delta) ==
    /\ HasAnalysisTab
    /\ LET new_min == NewMin(fft_min_val, delta, fft_max_val)
       IN  /\ fft_min_val' = new_min
           /\ log_entries' = add_log_entry(log_entries,
                  "Adjusted FFT minimum to {new_min:.1f}")
    /\ last_call' = Call("adjust_fft_min", delta, "", None)
    /\ UNCHANGED <<analysisFrame, fft_max_val, fft_ymin, fft_ymax>>

adjust_fft_min(delta) ==
    /\ HasAnalysisTab
    /\ LET new_min == NewMin(fft_min_val, delta, fft_max_val)
       IN  /\ fft_min_val' = new_min
           /\ fft_ymin' = IF ax_fft THEN new_min ELSE fft_ymin
           /\ log_entries' = add_log_entry(log_entries,
                  "Adjusted FFT minimum to {new_min:.1f}")
    /\ last_call' = Call("adjust_fft_min", delta, "", None)
    /\ UNCHANGED <<analysisFrame, fft_max_val, fft_ymax>>

adjust_fft_max(delta) ==
    /\ HasAnalysisTab
    /\ fft_max_val + delta <= MaxYmax
    /\ LET new_max == NewMax(fft_max_val, delta, fft_min_val)
       IN  /\ fft_max_val' = new_max
           /\ fft_ymax' = IF ax_fft THEN new_max ELSE fft_ymax
           /\ log_entries' = add_log_entry(log_entries,
                  "Adjusted FFT maximum to {new_max:.1f}")
    /\ last_call' = Call("adjust_fft_max", delta, "", None)
    /\ UNCHANGED <<analysisFrame, fft_min_val, fft_ymin>>

on_reset_fft ==
    /\ HasAnalysisTab
    /\ fft_min_val' = 0
    /\ fft_max_val' = 120
    /\ fft_ymin' = IF ax_fft THEN 0 ELSE fft_ymin
    /\ fft_ymax' = IF ax_fft THEN 120 ELSE fft_ymax
    /\ log_entries' = add_log_entry(log_entries, "Reset FFT range to defaults")
    /\ last_call' = Call("on_reset_fft", None, "", None)
    /\ UNCHANGED analysisFrame

\* on_auto_y: visualization.auto_adjust_fft_range sets the range of the
\* state to r (or leaves it, r being the range of the state), then the tab
\* copies the range of the state (lines 229-231).
on_auto_y(r) ==
    /\ HasAnalysisTab
    /\ fft_ymin' = r[1] /\ fft_ymax' = r[2]
    /\ fft_min_val' = r[1] /\ fft_max_val' = r[2]
    /\ last_call' = Call("on_auto_y", r, "", None)
    /\ UNCHANGED <<analysisFrame, log_entries>>

\* -------------------------------------------- ui_tabs.py, AnnotationsTab
annotFrame == <<dataVars, projVars, audioVars, fftVars, scrollVars, mgrVars,
                analysisVars, filterVars, worldVars>>

HasAnnotationsTab == "annotations" \in DOMAIN tabs

\* update_annotations_display and the other uses of the widgets build()
\* creates after line 860: an AttributeError on a tab whose build() raised.
AnnotWidgetsRaise ==
    IF tabs["annotations"].built THEN "" ELSE "AttributeError"

\* An annotation object whose id is always 1.
NewAnnotationFirstId(start, end) ==
    LET base == [id |-> 1,
                 range |-> <<start, end>>,
                 classification |-> "General",
                 comment |-> "",
                 time_created |-> clock,
                 color |-> "#DCDCAA"]
    IN  IF start < Len(time_labels_all) /\ end < Len(time_labels_all)
        THEN ("time_range" :> (time_labels_all[start + 1] \o " - "
                               \o time_labels_all[end + 1])) @@ base
        ELSE base

\* on_add_annotation, lines 983-996: the annotation object
NewAnnotation(start, end) ==
    LET base == [id |-> Len(annotations) + 1,
                 range |-> <<start, end>>,
                 classification |-> "General",
                 comment |-> "",
                 time_created |-> clock,
                 color |-> "#DCDCAA"]
    IN  IF start < Len(time_labels_all) /\ end < Len(time_labels_all)
        THEN ("time_range" :> (time_labels_all[start + 1] \o " - "
                               \o time_labels_all[end + 1])) @@ base
        ELSE base

on_add_annotation ==
    /\ HasAnnotationsTab
    /\ Len(annotations) < MaxAnnotations
    /\ IF ~IsNone(selected_range)
       THEN LET annotation == NewAnnotation(selected_range[1],
                                            selected_range[2])
                err == AnnotWidgetsRaise
            IN  /\ annotations' = Append(annotations, annotation)
                /\ last_call' = Call("on_add_annotation", None, err, None)
                /\ IF err # ""
                   THEN UNCHANGED <<current_annotation, log_entries>>
                   ELSE /\ current_annotation' = Some(annotation)
                        /\ log_entries' = add_log_entry(log_entries,
                               "Added annotation at range {start}-{end}")
       ELSE /\ log_entries' = add_log_entry(log_entries,
                                  "Cannot add annotation - no selection")
            /\ last_call' = Call("on_add_annotation", None, "", None)
            /\ UNCHANGED annotVars
    /\ UNCHANGED <<annotFrame, selVars>>

\* list.remove(x): the list without its first element equal to x
RECURSIVE RemoveFirst(_, _)
RemoveFirst(s, x) ==
    IF s = <<>> THEN <<>>
    ELSE IF Head(s) = x THEN Tail(s)
    ELSE <<Head(s)>> \o RemoveFirst(Tail(s), x)

Contains(s, x) == \E i \in 1..Len(s) : s[i] = x

on_delete_annotation ==
    /\ HasAnnotationsTab
    /\ IF ~IsNone(current_annotation)
       THEN IF ~Contains(annotations, Val(current_annotation))
            THEN /\ last_call' = Call("on_delete_annotation", None,
                                      "ValueError", None)
                 /\ UNCHANGED <<annotVars, log_entries>>
            ELSE /\ annotations' = RemoveFirst(annotations,
                                               Val(current_annotation))
                 /\ log_entries' = add_log_entry(log_entries,
                        "Deleted annotation {id}")
                 /\ current_annotation' = None
                 /\ last_call' = Call("on_delete_annotation", None,
                                      AnnotWidgetsRaise, None)
       ELSE /\ log_entries' = add_log_entry(log_entries,
                                  "No annotation selected to delete")
            /\ last_call' = Call("on_delete_annotation", None, "", None)
            /\ UNCHANGED annotVars
    /\ UNCHANGED <<annotFrame, selVars>>

on_clear_selection ==
    /\ HasAnnotationsTab
    /\ IF ~IsNone(fft_patch)
       THEN /\ fft_patch' = None
            /\ selected_range' = None
            /\ last_call' = Call("on_clear_selection", None,
                                 AnnotWidgetsRaise, None)
            /\ log_entries' = IF AnnotWidgetsRaise # "" THEN log_entries
                              ELSE add_log_entry(log_entries,
                                                 "Cleared selection")
       ELSE /\ last_call' = Call("on_clear_selection", None, "", None)
            /\ UNCHANGED <<selVars, log_entries>>
    /\ UNCHANGED <<annotFrame, annotVars>>

\* ------------------------------------------------- the playback thread
\* The audio module: one optional playback thread with a stop flag.
startFrame == <<dataVars, projVars, selVars, fftVars, scrollVars,
                log_entries, mgrVars, analysisVars, filterVars, annotVars,
                files, clock>>

\* The play button while nothing plays: start the playback thread.
play_audio(t) ==
    /\ ~audio_playing
    /\ threads[t] = "new"
    /\ \A k \in 1..(t - 1) : threads[k] # "new"
    /\ threads' = [threads EXCEPT ![t] = "live"]
    /\ audio_thread' = Some(t)
    /\ audio_playing' = TRUE
    /\ audio_stop_flag' = FALSE
    /\ audio_finished' = FALSE
    /\ last_call' = Call("play_audio", t, "", None)
    /\ UNCHANGED startFrame

\* The play button while audio plays: ask the thread to stop.
stop_audio ==
    /\ audio_playing
    /\ audio_stop_flag' = TRUE
    /\ last_call' = Call("stop_audio", None, "", None)
    /\ UNCHANGED <<audio_playing, audio_finished, audio_thread, threads,
                   startFrame>>

\* The thread sees the stop flag between two chunks and ends.
playback_stops(t) ==
    /\ threads[t] = "live"
    /\ audio_stop_flag
    /\ threads' = [threads EXCEPT ![t] = "done"]
    /\ audio_playing' = FALSE
    /\ last_call' = Call("playback_stops", t, "", None)
    /\ UNCHANGED <<audio_stop_flag, audio_finished, audio_thread, startFrame>>

\* The thread reaches the end of the audio.
playback_finishes(t) ==
    /\ threads[t] = "live"
    /\ ~audio_stop_flag
    /\ threads' = [threads EXCEPT ![t] = "done"]
    /\ audio_playing' = FALSE
    /\ audio_finished' = TRUE
    /\ last_call' = Call("playback_finishes", t, "", None)
    /\ UNCHANGED <<audio_stop_flag, audio_thread, startFrame>>

\* ------------------------------------------------ ui_layout.py, main.py
update_ui_for_data ==
    /\ IF ~IsNone(data_global)
       THEN /\ time_zoom_start' = 0
            /\ time_zoom_end' = Len(Val(data_global)) - 1
       ELSE UNCHANGED <<time_zoom_start, time_zoom_end>>
    /\ last_call' = Call("update_ui_for_data", None, "", None)
    /\ UNCHANGED <<dataVars, file_paths, current_timezone, spec_click_line,
                   freq_markers, gain_slider, audioVars, selVars, fftVars,
                   scrollVars, log_entries, mgrVars, analysisVars,
                   filterVars, annotVars, worldVars>>

\* setup_viewer: reset_state, state.file_paths = file_paths, initialize_ui;
\* when create_modern_layout raises, the exception ends setup_viewer.
setup_viewer(paths, ds) ==
    LET u0 == ModernLayout([CurUI EXCEPT !.log_entries = <<>>])
        u == IF u0.raised # "" THEN u0
             ELSE [u0 EXCEPT !.log_entries = add_log_entry(@,
                      "Loading {n} file(s)...")]
    IN  /\ SetUI(u)
        /\ ax_fft' = TRUE
        /\ tab_manager' = TRUE
        /\ file_paths' = paths
        /\ audio_playing' = FALSE /\ audio_stop_flag' = FALSE
        /\ audio_finished' = FALSE /\ audio_thread' = None
        /\ spec_click_line' = None /\ selected_range' = None
        /\ fft_patch' = None
        /\ UNCHANGED <<current_timezone, freq_markers, gain_slider,
                       scrollVars, worldVars>>
        /\ last_call' = Call("setup_viewer", paths, u.raised, None)
        /\ IF u.raised # ""
           THEN /\ data_global' = None /\ freqs_global' = None
                /\ time_labels_all' = <<>> /\ timestamp_all' = <<>>
                /\ time_zoom_start' = 0 /\ time_zoom_end' = 0
           ELSE /\ data_global' = Some(ds)
                /\ freqs_global' = Some(FreqAxis)
                /\ time_labels_all' =
                       [i \in 1..Len(ds) |-> "t" \o ToString(i - 1)]
                /\ timestamp_all' = [i \in 1..Len(ds) |-> i]
                /\ time_zoom_start' = 0
                /\ time_zoom_end' = Len(ds) - 1

\* ------------------------------------------------------- specifications
\* The tab manager and the layout that creates it.
TabsNext ==
    \/ TabManager_init
    \/ \E n \in Names : add_tab(n)
    \/ create_tab_buttons
    \/ \E n \in Names \cup {"help"} : switch_to_tab(n)
    \/ update_all_tabs
    \/ update_active_tab
    \/ create_modern_layout

SpecTabs == Init /\ [][TabsNext]_vars

\* Project files: the state that is saved, and save and load.
ProjectNext ==
    \/ \E p \in Paths, io \in {"ok", "write_fails"} : save_project(p, io)
    \/ \E p \in Paths : load_project(p)
    \/ \E x \in ClickXs : on_click(x)
    \/ \E z \in Zones : set_timezone(z)
    \/ \E v \in GainVals : set_gain(v)
    \/ \E f \in MarkerFreqs : set_marker(1, f)
    \/ \E paths \in PathLists, ds \in DataSets : setup_viewer(paths, ds)
    \/ \E ds \in DataSets : parse_hydrophone_data(ds)
    \/ update_ui_for_data
    \/ reset_state

SpecProject == Init /\ [][ProjectNext]_vars

\* The Filter tab, the data and the selection it reads.
FilterNext ==
    \/ TabManager_init
    \/ add_tab("filter")
    \/ \E ds \in DataSets : parse_hydrophone_data(ds)
    \/ \E r \in Ranges : on_select(r)
    \/ \E s \in TypedNames : type_name(s)
    \/ on_capture_profile
    \/ on_save_profile
    \/ on_load_profile
    \/ on_delete_profile
    \/ on_export_profile
    \/ \E v \in Intensities : on_intensity_change(v)
    \/ on_toggle_filter
    \/ on_reset_filter

SpecFilter == Init /\ [][FilterNext]_vars

\* The Analysis tab's FFT range, the layout and reset_state.
AnalysisNext ==
    \/ create_modern_layout
    \/ \E d \in Deltas : adjust_fft_min(d)
    \/ \E d \in Deltas : adjust_fft_max(d)
    \/ on_reset_fft
    \/ reset_state

SpecAnalysis == Init /\ [][AnalysisNext]_vars

\* Audio playback and reset_state.
AudioNext ==
    \/ \E t \in ThreadIds : play_audio(t)
    \/ stop_audio
    \/ \E t \in ThreadIds : playback_stops(t)
    \/ \E t \in ThreadIds : playback_finishes(t)
    \/ reset_state

SpecAudio == Init /\ [][AudioNext]_vars

\* The Annotations tab and the selection it reads.
AnnotNext ==
    \/ TabManager_init
    \/ add_tab("annotations")
    \/ \E ds \in DataSets : parse_hydrophone_data(ds)
    \/ \E r \in Ranges : on_select(r)
    \/ tick
    \/ on_add_annotation
    \/ on_delete_annotation
    \/ on_clear_selection

SpecAnnot == Init /\ [][AnnotNext]_vars

\* The data arrays under the operations that assign them and the tab
\* callbacks that read them.
DataNext ==
    \/ reset_state
    \/ \E paths \in PathLists, ds \in DataSets : setup_viewer(paths, ds)
    \/ \E ds \in DataSets : parse_hydrophone_data(ds)
    \/ update_ui_for_data
    \/ create_modern_layout
    \/ \E r \in Ranges : on_select(r)
    \/ on_save_profile
    \/ on_add_annotation

SpecData == Init /\ [][DataNext]_vars

\* The FFT range of the Analysis tab under its three range operations.
FftNext ==
    \/ create_modern_layout
    \/ \E d \in FftDeltas : adjust_fft_min(d)
    \/ \E d \in FftDeltas : adjust_fft_max(d)
    \/ on_reset_fft

SpecFft == Init /\ [][FftNext]_vars

\* The range of the Analysis tab against the range of the state.
RangeNext ==
    \/ create_modern_layout
    \/ \E d \in Deltas : adjust_fft_min(d)
    \/ \E d \in Deltas : adjust_fft_max(d)
    \/ on_reset_fft
    \/ \E r \in AutoRanges \cup {<<fft_ymin, fft_ymax>>} : on_auto_y(r)
    \/ switch_to_tab("analysis")

SpecRange == Init /\ [][RangeNext]_vars

\* ----------------------------------------------------------------- claims
VisibleTabs == {n \in DOMAIN tabs : tabs[n].visible}

\* C1: tabs are mutually exclusive.  After any sequence of add_tab and
\* switch_to_tab calls at most one registered tab is visible, and right
\* after switch_to_tab(name) with name registered that tab is visible and
\* no other registered tab is.
C1_TabsMutuallyExclusive ==
    /\ Cardinality(VisibleTabs) <= 1
    /\ (last_call.op = "switch_to_tab" /\ last_call.arg \in DOMAIN tabs)
           => VisibleTabs = {last_call.arg}

\* C2: create_modern_layout completes with the four tabs registered and
\* built, a button for each of them and the analysis tab active.
C2_LayoutBuildsFourTabs ==
    last_call.op = "create_modern_layout" =>
        /\ last_call.raised = ""
        /\ tab_manager
        /\ DOMAIN tabs = Names
        /\ \A n \in DOMAIN tabs : tabs[n].built
        /\ DOMAIN tab_buttons = Names
        /\ active_tab = Some("analysis")

FilterOps == {"on_capture_profile", "on_save_profile", "on_load_profile",
              "on_delete_profile", "on_export_profile",
              "on_intensity_change", "on_toggle_filter", "on_reset_filter"}

\* C3: no operation of the Filter tab changes state.data_global or
\* state.freqs_global, and turning the filter on changes nothing but the
\* status indicator and the log.
C3_FilterNeverChangesData ==
    [][/\ last_call'.op \in FilterOps
              => UNCHANGED <<data_global, freqs_global>>
       /\ (last_call'.op = "on_toggle_filter" /\ status_text' = "ON")
              => UNCHANGED <<filterFrame, noise_profiles, active_profile,
                             filter_intensity, name_input>>]_vars

C3_FilterTurnedOnOverData ==
    /\ last_call.op = "on_toggle_filter"
    /\ status_text = "ON" /\ status_light = "green"
    /\ ~IsNone(data_global)
    /\ ~IsNone(active_profile)
    /\ \E b \in 1..2 : Val(active_profile).data[b] > 0

\* The sum of bin b over the frames data_global[s], ..., data_global[e].
RECURSIVE BinSum(_, _, _)
BinSum(s, e, b) ==
    IF s > e THEN 0 ELSE Val(data_global)[s + 1][b] + BinSum(s + 1, e, b)

\* C4: when on_save_profile stores a profile for the selection (start, end),
\* the profile's range is (start, end) and its data is, per frequency bin,
\* the mean of the end - start + 1 frames data_global[start..end].
C4_SavedProfileIsMean ==
    [][(last_call'.op = "on_save_profile"
        /\ Len(noise_profiles') = Len(noise_profiles) + 1)
       => LET p == Last(noise_profiles')
              start == selected_range[1]
              end == selected_range[2]
          IN  /\ SubSeq(noise_profiles', 1, Len(noise_profiles))
                     = noise_profiles
              /\ p.range = <<start, end>>
              /\ Len(p.data) = Len(Val(data_global)[1])
              /\ \A b \in 1..Len(p.data) :
                     p.data[b] * (end - start + 1) = BinSum(start, end, b)]_vars

C4_ProfileOverSeveralFrames ==
    /\ last_call.op = "on_save_profile"
    /\ last_call.raised = ""
    /\ noise_profiles # <<>>
    /\ Last(noise_profiles).range = selected_range
    /\ selected_range[1] < selected_range[2]
    /\ Last(noise_profiles).data # Val(data_global)[selected_range[1] + 1]

\* C5: a load_project(p) that follows a save_project(p) that returned True
\* returns a dictionary whose file_paths, time_zoom, gain (the default
\* (0, 1) when there is no gain slider), current_timezone (the zone name)
\* and freq_markers are those of the state, and which has a click_index
\* exactly when a click line is set.
C5_SaveLoadRoundTrip ==
    [][(/\ last_call.op = "save_project"
        /\ last_call.ret = Some(TRUE)
        /\ last_call'.op = "load_project"
        /\ last_call'.arg = last_call.arg)
       => /\ last_call'.ret # None
          /\ LET d == Val(last_call'.ret)
             IN  /\ d.file_paths = file_paths
                 /\ d.time_zoom = <<time_zoom_start, time_zoom_end>>
                 /\ d.gain = IF IsNone(gain_slider) THEN <<0, 1>>
                             ELSE Val(gain_slider).val
                 /\ d.current_timezone = current_timezone.zone
                 /\ Len(d.freq_markers) = Len(freq_markers)
                 /\ \A i \in 1..Len(freq_markers) :
                        d.freq_markers[i] = freq_markers[i].freq
                 /\ ("click_index" \in DOMAIN d) <=> ~IsNone(spec_click_line)]_vars

C5_LoadedWhatWasSaved ==
    /\ last_call.op = "load_project"
    /\ last_call.ret # None
    /\ LET d == Val(last_call.ret)
       IN  /\ "click_index" \in DOMAIN d
           /\ d.file_paths = file_paths /\ file_paths # <<>>
           /\ d.time_zoom = <<time_zoom_start, time_zoom_end>>
           /\ time_zoom_end > time_zoom_start
           /\ d.gain # <<0, 1>>
           /\ d.current_timezone # "UTC"
           /\ d.freq_markers[1] # None

\* C6: save_project never raises; it returns True exactly when the
\* dictionary was written to the file, False when a step failed, and it
\* changes no variable of the state module.
C6_SaveNeverRaises ==
    [][last_call'.op = "save_project"
       => /\ last_call'.raised = ""
          /\ last_call'.ret \in {Some(TRUE), Some(FALSE)}
          /\ last_call'.ret = Some(TRUE)
                 <=> files'[last_call'.arg].kind = "pickle"
          /\ last_call'.ret = Some(FALSE)
                 => \/ files'[last_call'.arg] = files[last_call'.arg]
                    \/ files'[last_call'.arg].kind = "corrupt"
          /\ UNCHANGED <<stateVars, mgrVars>>]_vars

C6_SaveFailedOnWrite ==
    /\ last_call.op = "save_project"
    /\ last_call.ret = Some(FALSE)
    /\ files[last_call.arg].kind = "corrupt"

\* C7: load_project never raises and changes no variable of the state
\* module; it returns the stored dictionary when the file can be read and
\* None when the file is missing or unreadable.
C7_LoadNeverRaises ==
    [][last_call'.op = "load_project"
       => /\ last_call'.raised = ""
          /\ files[last_call'.arg].kind = "pickle"
                 => last_call'.ret = Some(files[last_call'.arg].obj)
          /\ files[last_call'.arg].kind # "pickle" => last_call'.ret = None
          /\ UNCHANGED <<stateVars, mgrVars, files>>]_vars

C7_LoadOfUnreadableFile ==
    /\ last_call.op = "load_project"
    /\ last_call.ret = None
    /\ files[last_call.arg].kind = "corrupt"

\* C8: after reset_state every variable it assigns has, as a variable of
\* the state module, the value it had when the module was loaded.
C8_ResetRestoresInitialValues ==
    last_call.op = "reset_state" =>
        /\ data_global = None /\ freqs_global = None
        /\ file_paths = <<>> /\ time_labels_all = <<>> /\ timestamp_all = <<>>
        /\ current_timezone = UTC
        /\ audio_playing = FALSE /\ audio_stop_flag = FALSE
        /\ audio_finished = FALSE /\ audio_thread = None
        /\ time_zoom_start = 0 /\ time_zoom_end = 0
        /\ spec_click_line = None /\ selected_range = None
        /\ fft_patch = None
        /\ fft_ymin = InitFftYmin /\ fft_ymax = InitFftYmax
        /\ freq_markers = InitMarkers
        /\ file_scroll_position = 0 /\ visible_files = InitVisibleFiles
        /\ scroll_position = 0 /\ log_entries = <<>>

\* C9: whenever a playback thread is live, state.audio_thread references
\* it (so at most one playback thread is live).
C9_SinglePlaybackThread ==
    \A t \in ThreadIds : threads[t] = "live" => audio_thread = Some(t)

\* C10: on_add_annotation with a selection (start, end) appends exactly one
\* annotation with range (start, end), classification "General" and an
\* empty comment and makes it the current annotation; without a selection
\* the annotations and the current annotation are unchanged.
C10_AddAnnotationTagsSelection ==
    [][last_call'.op = "on_add_annotation"
       => IF IsNone(selected_range)
          THEN UNCHANGED <<annotations, current_annotation>>
          ELSE /\ Len(annotations') = Len(annotations) + 1
               /\ SubSeq(annotations', 1, Len(annotations)) = annotations
               /\ Last(annotations').range = selected_range
               /\ Last(annotations').classification = "General"
               /\ Last(annotations').comment = ""
               /\ current_annotation' = Some(Last(annotations'))]_vars

\* len(data_global) if data_global is not None else 0
DataPoints == IF IsNone(data_global) THEN 0 ELSE Len(Val(data_global))

\* C11: the arrays of FFT frames, of timestamps and of time labels have the
\* same length in every reachable state (0 frames while data_global is
\* None).
C11_ArraysSameLength ==
    /\ Len(timestamp_all) = DataPoints
    /\ Len(time_labels_all) = DataPoints

C11_SeveralFramesUnderTabCallback ==
    /\ last_call.op \in {"on_save_profile", "on_add_annotation",
                         "update_ui_for_data"}
    /\ DataPoints = MaxFrames
    /\ Len(timestamp_all) = MaxFrames

\* C12: switch_to_tab(name) with a name that is not registered logs
\* "Tab '<name>' not found" and changes nothing else: the active tab, the
\* visibility of every tab, the button colours and the fields the tabs'
\* on_hide and on_show write are as before the call.
C12_UnknownTabOnlyLogs ==
    [][(last_call'.op = "switch_to_tab" /\ last_call'.arg \notin DOMAIN tabs)
       => /\ last_call'.raised = ""
          /\ Last(log_entries') = "Tab '" \o last_call'.arg \o "' not found"
          /\ UNCHANGED <<dataVars, projVars, audioVars, selVars, fftVars,
                         scrollVars, mgrVars, analysisVars, filterVars,
                         annotVars, worldVars>>]_vars

C12_UnknownTabWhileOneIsActive ==
    /\ last_call.op = "switch_to_tab"
    /\ last_call.arg \notin DOMAIN tabs
    /\ ~IsNone(active_tab)
    /\ Val(active_tab) \in DOMAIN tab_buttons
    /\ tabs[Val(active_tab)].visible
    /\ log_entries = <<"Tab 'help' not found">>

\* C13: after any sequence of add_tab, create_tab_buttons and switch_to_tab
\* calls, a name registered again included, active_tab is None or the name
\* of a registered tab whose visible flag is True.
C13_ActiveTabRegisteredAndVisible ==
    \/ IsNone(active_tab)
    \/ /\ Val(active_tab) \in DOMAIN tabs
       /\ tabs[Val(active_tab)].visible

\* C14: once create_tab_buttons has run, after any sequence of switch_to_tab
\* calls the button of the active tab has the active colours and every
\* other tab button has the default colours.
C14_ButtonColoursShowActiveTab ==
    (last_call.op = "switch_to_tab" /\ DOMAIN tab_buttons # {}) =>
        \A n \in DOMAIN tab_buttons :
            tab_buttons[n] = IF active_tab = Some(n) THEN ActiveColours
                             ELSE DefaultColours

\* C15: TabBase.update calls on_update only on a visible tab, and
\* update_all_tabs and update_active_tab call on_update on the same set of
\* tabs: the active tab only, or none when no tab is active.
C15_UpdateAllIsUpdateActive ==
    /\ UpdateAllTabs(CurUI) \subseteq VisibleTabs
    /\ UpdateAllTabs(CurUI) = UpdateActiveTab(CurUI)
    /\ UpdateActiveTab(CurUI) \subseteq
           (IF IsNone(active_tab) THEN {} ELSE {Val(active_tab)})

\* C16: starting from the defaults (0, 120), after any sequence of
\* adjust_fft_min, adjust_fft_max and on_reset_fft calls the Analysis tab
\* keeps fft_max_val - fft_min_val >= 10.
C16_FftRangeKeepsGap == fft_max_val - fft_min_val >= 10

C16_MinimumClampedToGap ==
    /\ last_call.op = "adjust_fft_min"
    /\ last_call.arg = 200
    /\ fft_max_val - fft_min_val = 10

\* C17: starting from the defaults (0, 120), after any sequence of
\* adjust_fft_min, adjust_fft_max and on_reset_fft calls the Analysis tab
\* keeps fft_min_val >= -20.
C17_FftMinimumAboveFloor == fft_min_val >= -20

C17_SecondClampAtTheFloor ==
    /\ last_call.op = "adjust_fft_min"
    /\ fft_max_val = -10
    /\ fft_min_val = -20

\* C18: after each of adjust_fft_min, adjust_fft_max, on_reset_fft,
\* on_auto_y and on_show of the Analysis tab, in any order, the tab's range
\* is the range of the state: fft_min_val = state.fft_ymin and
\* fft_max_val = state.fft_ymax.
C18_TabRangeIsStateRange ==
    (\/ last_call.op \in {"adjust_fft_min", "adjust_fft_max", "on_reset_fft",
                          "on_auto_y"}
     \/ last_call.op = "switch_to_tab" /\ last_call.arg = "analysis")
    => (fft_min_val = fft_ymin /\ fft_max_val = fft_ymax)

C18_AdjustedAfterAutoRange ==
    /\ last_call.op = "adjust_fft_min"
    /\ fft_max_val = 65 /\ fft_ymax = 65
    /\ fft_min_val = 5 /\ fft_ymin = 5

\* C19: in every state reachable by on_add_annotation and
\* on_delete_annotation calls the ids of the annotations in the list are
\* pairwise distinct.
C19_AnnotationIdsUnique ==
    \A i, j \in 1..Len(annotations) :
        annotations[i].id = annotations[j].id => i = j

C19_SeveralAnnotations ==
    /\ last_call.op = "on_add_annotation"
    /\ Len(annotations) = MaxAnnotations
    /\ annotations[1].id # annotations[2].id
    /\ annotations[1].range = annotations[2].range

====
